---------------------------- MODULE Spec2Model ----------------------------
(***************************************************************************)
(* Model of the gene-annotation feature tree (src/src/featureTree.hh) and *)
(* of the annotation set that indexes it (src/src/annotationSet.hh).      *)
(*                                                                         *)
(* FeatureNode objects live in an arena: a node is a positive integer, a  *)
(* FeatureNode* is a node or NULL, and each field of the class is a       *)
(* function over the arena.  Each component has a specification of its    *)
(* own over the shared variables:                                          *)
(*   SpecTree   FeatureNode construction, addChild and the destructor      *)
(*   SpecRFT    one ResultFeatureTrees object and its operations           *)
(*   SpecBound  the status of a gene computed from its transcripts         *)
(*   SpecTMF    one TransMappedFeature object and its operations           *)
(*   SpecIndex  AnnotationSet: addGene and the lookups by id and by name   *)
(*   SpecOverlap AnnotationSet: addGene and the interval query             *)
(*   SpecWrite  AnnotationSet: addGene and write                           *)
(***************************************************************************)
EXTENDS Integers, Sequences, FiniteSets, TLC

VARIABLES
    fParent,        \* FeatureNode::fParent, node -> node or NULL
    fChildren,      \* FeatureNode::fChildren, node -> sequence of nodes
    fRemapStatus,   \* FeatureNode::fRemapStatus
    fTargetStatus,  \* FeatureNode::fTargetStatus
    fNumMappings,   \* FeatureNode::fNumMappings
    fAttrs,         \* the status attributes of the node's feature record
    destroyed,      \* node -> number of times ~FeatureNode ran on it (capped at 2)
    delStack,       \* activation records <<node, i>> of the running ~FeatureNode
    src,            \* ResultFeatureTrees::src
    mapped,         \* ResultFeatureTrees::mapped
    unmapped,       \* ResultFeatureTrees::unmapped
    target,         \* ResultFeatureTrees::target
    pc,             \* "run", "deleting", "done", "aborted" (assert), "crashed" (UB)
    lastOp,         \* the operation called last: [op, a, b]
    nOps,           \* operations called on the ResultFeatureTrees so far
    ret,            \* what the operation called last returned
    tmfMapped,      \* TransMappedFeature::mapped
    tmfUnmapped,    \* TransMappedFeature::unmapped
    fFeature,       \* FeatureNode::fFeature of the genes of the AnnotationSet
    fIdFeatureMap,  \* AnnotationSet::fIdFeatureMap, id -> vector of nodes
    fNameFeatureMap,\* AnnotationSet::fNameFeatureMap, name -> vector of nodes
    fGenes,         \* AnnotationSet::fGenes
    fLocationMap,   \* AnnotationSet::fLocationMap: [built, entries]
    fSeqRegionsWritten, \* AnnotationSet::fSeqRegionsWritten
    written,        \* what the GxfWriter received, in order
    checkLog        \* the calls of checkRecordSeqRegionWritten: <<seqid, returned>>

linkVars == <<fParent, fChildren>>
statusVars == <<fRemapStatus, fTargetStatus, fNumMappings, fAttrs>>
rftVars == <<src, mapped, unmapped, target>>
tmfVars == <<tmfMapped, tmfUnmapped>>
indexVars == <<fFeature, fIdFeatureMap, fNameFeatureMap, fGenes, fLocationMap>>
writeVars == <<fSeqRegionsWritten, written, checkLog>>
asVars == <<indexVars, writeVars>>
vars ==
    <<linkVars, statusVars, destroyed, delStack, rftVars, pc, lastOp, nOps, ret,
      tmfVars, asVars>>

NULL == 0

\* RemapStatus and TargetStatus (remapStatus.hh), by name.
REMAP_STATUS_NONE == "none"
REMAP_STATUS_FULL == "full"
REMAP_STATUS_PARTIAL == "partial"
REMAP_STATUS_DELETED == "deleted"
REMAP_STATUS_NO_SEQ_MAP == "no_seq_map"
REMAP_STATUS_GENE_CONFLICT == "gene_conflict"
REMAP_STATUS_GENE_SIZE_CHANGE == "gene_size_change"
RemapStatus ==
    {REMAP_STATUS_NONE, REMAP_STATUS_FULL, REMAP_STATUS_PARTIAL,
     REMAP_STATUS_DELETED, REMAP_STATUS_NO_SEQ_MAP,
     REMAP_STATUS_GENE_CONFLICT, REMAP_STATUS_GENE_SIZE_CHANGE}

TARGET_STATUS_NA == "na"
TARGET_STATUS_NEW == "new"
TARGET_STATUS_LOST == "lost"
TARGET_STATUS_OVERLAP == "overlap"
TargetStatus ==
    {TARGET_STATUS_NA, TARGET_STATUS_NEW, TARGET_STATUS_LOST, TARGET_STATUS_OVERLAP}

\* The status attributes of a feature record that carries none yet.
NoAttrs == [remap_status |-> "", target_status |-> "", num_mappings |-> -1]

\* ------------------------------------------------------------------ bounds
MaxNodes == 3       \* FeatureNode objects constructed in SpecTree
MaxStack == 4       \* depth at which a runaway destructor recursion overflows
MaxKids == 2        \* transcripts of each gene tree of a ResultFeatureTrees
MaxOps == 3         \* calls followed on one ResultFeatureTrees
MaxFrags == 3       \* fragments a feature maps to or leaves unmapped
MaxGenes == 3       \* genes added to one AnnotationSet
MaxWrites == 2      \* calls of write on one AnnotationSet

Nodes == 1..MaxNodes

Op(o, x, y) == [op |-> o, a |-> x, b |-> y]

\* AnnotationSet::AnnotationSet(genomeSizes): the maps, the gene list and the
\* set of written sequence ids are empty, and fLocationMap is NULL (not built).
EmptyAnnotationSet ==
    /\ fFeature = <<>>
    /\ fIdFeatureMap = <<>>
    /\ fNameFeatureMap = <<>>
    /\ fGenes = <<>>
    /\ fLocationMap = [built |-> FALSE, entries |-> {}]
    /\ fSeqRegionsWritten = {}
    /\ written = <<>>
    /\ checkLog = <<>>

\* The specifications of the feature trees hold no AnnotationSet.
NoAnnotationSet == EmptyAnnotationSet

\* A call on the ResultFeatureTrees: at most MaxOps of them are followed.
Call(o, x, y) ==
    /\ nOps < MaxOps
    /\ nOps' = nOps + 1
    /\ lastOp' = Op(o, x, y)
    /\ UNCHANGED <<tmfVars, asVars>>

\* ------------------------------------------------------- FeatureNode (tree)

\* FeatureNode::FeatureNode: no parent, no children, no status yet.
InitTree ==
    /\ fParent = [n \in Nodes |-> NULL]
    /\ fChildren = [n \in Nodes |-> <<>>]
    /\ destroyed = [n \in Nodes |-> 0]
    /\ delStack = <<>>
    /\ fRemapStatus = [n \in Nodes |-> REMAP_STATUS_NONE]
    /\ fTargetStatus = [n \in Nodes |-> TARGET_STATUS_NA]
    /\ fNumMappings = [n \in Nodes |-> 0]
    /\ fAttrs = [n \in Nodes |-> NoAttrs]
    /\ src = NULL /\ mapped = NULL /\ unmapped = NULL /\ target = NULL
    /\ pc = "run"
    /\ lastOp = Op("new", 0, 0)
    /\ nOps = 0
    /\ tmfMapped = <<>> /\ tmfUnmapped = <<>>
    /\ NoAnnotationSet
    /\ ret = ""
    /\ tmfMapped = <<>> /\ tmfUnmapped = <<>>
    /\ NoAnnotationSet

\* addChild with the assert compiled away: re-parents an attached node.
addChild_NoAssert(this, node) ==
    /\ pc = "run"
    /\ UNCHANGED <<nOps, tmfVars, asVars>>
    /\ lastOp' = Op("addChild", this, node)
    /\ fChildren' = [fChildren EXCEPT ![this] = Append(@, node)]
    /\ fParent' = [fParent EXCEPT ![node] = this]
    /\ UNCHANGED <<destroyed, delStack, pc, statusVars, rftVars, ret>>

\* FeatureNode::addChild: assert(node->fParent == NULL) aborts the program
\* before anything is written; otherwise push_back and link the parent.
addChild(this, node) ==
    /\ pc = "run"
    /\ UNCHANGED <<nOps, tmfVars, asVars>>
    /\ lastOp' = Op("addChild", this, node)
    /\ IF fParent[node] # NULL
       THEN /\ pc' = "aborted"
            /\ UNCHANGED <<fParent, fChildren, destroyed, delStack, statusVars, rftVars, ret>>
       ELSE /\ fChildren' = [fChildren EXCEPT ![this] = Append(@, node)]
            /\ fParent' = [fParent EXCEPT ![node] = this]
            /\ UNCHANGED <<destroyed, delStack, pc, statusVars, rftVars, ret>>

\* `delete node` from outside: ~FeatureNode starts on node.
Delete(node) ==
    /\ pc = "run"
    /\ UNCHANGED <<nOps, tmfVars, asVars>>
    /\ lastOp' = Op("delete", node, 0)
    /\ destroyed' = [destroyed EXCEPT ![node] = 1]
    /\ delStack' = <<<<node, 0>>>>
    /\ pc' = "deleting"
    /\ UNCHANGED <<fParent, fChildren, statusVars, rftVars, ret>>

\* One iteration of the loop of ~FeatureNode in the innermost activation:
\* `delete fChildren[i]` runs the destructor of the child, and the end of the
\* loop returns to the caller.  Running the destructor on an object that was
\* already destroyed is undefined behaviour: the program either crashes there
\* or goes on into the freed object, until the recursion overflows the stack.
DeleteStep ==
    /\ pc = "deleting"
    /\ LET top == delStack[Len(delStack)]
           n == top[1]
           i == top[2]
           rest == SubSeq(delStack, 1, Len(delStack) - 1)
       IN IF i < Len(fChildren[n])
          THEN LET c == fChildren[n][i + 1]
                   advanced == Append(rest, <<n, i + 1>>)
               IN /\ destroyed' = [destroyed EXCEPT
                                     ![c] = IF @ >= 1 THEN 2 ELSE 1]
                  /\ IF destroyed[c] = 0
                     THEN /\ delStack' = Append(advanced, <<c, 0>>)
                          /\ pc' = "deleting"
                     ELSE \/ /\ pc' = "crashed"
                             /\ delStack' = advanced
                          \/ /\ Len(advanced) < MaxStack
                             /\ pc' = "deleting"
                             /\ delStack' = Append(advanced, <<c, 0>>)
          ELSE /\ delStack' = rest
               /\ pc' = IF rest = <<>> THEN "done" ELSE "deleting"
               /\ UNCHANGED destroyed
    /\ UNCHANGED <<fParent, fChildren, lastOp, nOps, statusVars, rftVars, ret, tmfVars,
                 asVars>>

AddChild == \E this \in Nodes, node \in Nodes : addChild(this, node)

DeleteNode == \E node \in Nodes : Delete(node)

NextTree == AddChild \/ DeleteNode \/ DeleteStep

SpecTree == InitTree /\ [][NextTree]_vars

\* --------------------------------------------------------- tree structure

RECURSIVE AncestorAt(_, _, _)
\* The node reached from n by following fParent k times (NULL when it ends).
AncestorAt(n, k, par) ==
    IF k = 0 \/ n = NULL THEN n ELSE AncestorAt(par[n], k - 1, par)

RECURSIVE Below(_, _, _)
\* r is n or is met within k parent links above n.
Below(n, r, k) ==
    \/ n = r
    \/ k > 0 /\ n # NULL /\ fParent[n] # NULL /\ Below(fParent[n], r, k - 1)

\* n is reached from itself by following parent links.
OwnAncestor(n) == \E k \in 1..MaxNodes : AncestorAt(n, k, fParent) = n

\* The number of places of child lists that hold n.
Occurrences(n) ==
    Cardinality({pi \in Nodes \X (1..MaxNodes) :
                    /\ pi[2] <= Len(fChildren[pi[1]])
                    /\ fChildren[pi[1]][pi[2]] = n})

\* Nodes below or at r.
Subtree(r) ==
    LET depth == Cardinality(DOMAIN fParent)
    IN {n \in DOMAIN fParent : Below(n, r, depth)}

IsTree ==
    \A n \in Nodes :
        /\ ~OwnAncestor(n)
        /\ Occurrences(n) = (IF fParent[n] = NULL THEN 0 ELSE 1)
        /\ fParent[n] # NULL =>
              \E i \in 1..Len(fChildren[fParent[n]]) : fChildren[fParent[n]][i] = n


\* ----------------------------------------------- FeatureNode (status, attrs)
\* The operations below take the field they write as a function over the arena
\* and give the function after the call.

\* FeatureNode::setRemapStatus: this node only.
FeatureNode_setRemapStatus(rs, this, remapStatus) ==
    [rs EXCEPT ![this] = remapStatus]

\* FeatureNode::rsetRemapStatus: this node and every descendant.
FeatureNode_rsetRemapStatus(rs, this, remapStatus) ==
    LET sub == Subtree(this)
    IN [n \in DOMAIN rs |-> IF n \in sub THEN remapStatus ELSE rs[n]]

\* FeatureNode::setTargetStatus: this node only.
FeatureNode_setTargetStatus(ts, this, targetStatus) ==
    [ts EXCEPT ![this] = targetStatus]

\* FeatureNode::rsetTargetStatus: this node and every descendant.
FeatureNode_rsetTargetStatus(ts, this, targetStatus) ==
    LET sub == Subtree(this)
    IN [n \in DOMAIN ts |-> IF n \in sub THEN targetStatus ELSE ts[n]]

\* FeatureNode::rsetTargetStatusAttr: stamps the target status of each node of
\* the subtree on its record.
FeatureNode_rsetTargetStatusAttr(at, this) ==
    LET sub == Subtree(this)
    IN [n \in DOMAIN at |->
          IF n \in sub
          THEN [at[n] EXCEPT !.target_status = fTargetStatus[n]]
          ELSE at[n]]

\* FeatureNode::setNumMappingsAttr: stamps the mapping count on this node's record.
FeatureNode_setNumMappingsAttr(at, this) ==
    [at EXCEPT ![this].num_mappings = fNumMappings[this]]

\* FeatureNode::rsetRemapStatusAttr: stamps the remap status of each node of
\* the subtree on its record.
FeatureNode_rsetRemapStatusAttr(at, this) ==
    LET sub == Subtree(this)
    IN [n \in DOMAIN at |->
          IF n \in sub
          THEN [at[n] EXCEPT !.remap_status = fRemapStatus[n]]
          ELSE at[n]]

\* `delete p`: nothing for NULL, else ~FeatureNode on every node of the tree.
DeleteTree(d, p) ==
    IF p = NULL
    THEN d
    ELSE LET sub == Subtree(p)
         IN [n \in DOMAIN d |->
               IF n \in sub THEN (IF d[n] >= 1 THEN 2 ELSE 1) ELSE d[n]]

\* p points to a node that was destroyed.
Dangling(d, p) == p # NULL /\ d[p] >= 1

\* ------------------------------------------------------ ResultFeatureTrees
\* The arena of SpecRFT: four gene trees (the source gene, and the trees that
\* mapped, unmapped and target may point to), each a root with MaxKids
\* transcripts, the first of which has one exon.
SrcGene == 1
MappedGene == 2
UnmappedGene == 3
TargetGene == 4
Kid(r, k) == 4 + (r - 1) * MaxKids + k
Grand(r) == 4 + 4 * MaxKids + r
RftNodes == 1..(8 + 4 * MaxKids)
RftChildren ==
    [n \in RftNodes |->
        IF n <= 4 THEN [k \in 1..MaxKids |-> Kid(n, k)]
        ELSE IF \E r \in 1..4 : n = Kid(r, 1)
             THEN <<Grand(CHOOSE r \in 1..4 : n = Kid(r, 1))>>
             ELSE <<>>]
RftParent ==
    [n \in RftNodes |->
        IF n <= 4 THEN NULL
        ELSE IF n > 4 + 4 * MaxKids THEN Kid(n - 4 - 4 * MaxKids, 1)
        ELSE ((n - 5) \div MaxKids) + 1]

\* Statuses the trees carry when the ResultFeatureTrees is built, and the
\* arguments of the calls.
InitRemap == {REMAP_STATUS_FULL, REMAP_STATUS_DELETED}
InitTarget == {TARGET_STATUS_NA, TARGET_STATUS_NEW}
ArgRemap == {REMAP_STATUS_GENE_CONFLICT}
ArgTarget == {TARGET_STATUS_OVERLAP}

\* ResultFeatureTrees::ResultFeatureTrees(src, mapped, unmapped): target is
\* NULL.  The trees handed in are built and carry the statuses of the mapping
\* that produced them, which differ between the mapped and the unmapped root.
InitRFT ==
    /\ fParent = RftParent
    /\ fChildren = RftChildren
    /\ \E rm \in InitRemap : \E ru \in InitRemap \ {rm} :
          fRemapStatus = [n \in RftNodes |->
                            IF n = MappedGene THEN rm
                            ELSE IF n = UnmappedGene THEN ru
                            ELSE REMAP_STATUS_NONE]
    /\ \E tm \in InitTarget : \E tu \in InitTarget \ {tm} :
          fTargetStatus = [n \in RftNodes |->
                             IF n = MappedGene THEN tm
                             ELSE IF n = UnmappedGene THEN tu
                             ELSE TARGET_STATUS_NA]
    /\ fNumMappings = [n \in RftNodes |-> IF n = MappedGene THEN 1 ELSE 0]
    /\ fAttrs = [n \in RftNodes |-> NoAttrs]
    /\ destroyed = [n \in RftNodes |-> 0]
    /\ delStack = <<>>
    /\ src = SrcGene
    /\ mapped \in {NULL, MappedGene}
    /\ unmapped \in {NULL, UnmappedGene}
    /\ target = NULL
    /\ pc = "run"
    /\ lastOp = Op("new", "", 0)
    /\ nOps = 0
    /\ ret = ""
    /\ tmfMapped = <<>> /\ tmfUnmapped = <<>>
    /\ NoAnnotationSet

\* The object is in use: the program runs and no pointer of it dangles.
Live ==
    /\ pc = "run"
    /\ ~Dangling(destroyed, mapped)
    /\ ~Dangling(destroyed, unmapped)
    /\ ~Dangling(destroyed, target)

\* The substitution of a missing target: target is assigned a tree cloned from
\* the target annotation, which carries its own statuses.
SetTarget ==
    /\ Live
    /\ target = NULL
    /\ Call("setTarget", "", 0)
    /\ target' = TargetGene
    /\ \E r \in InitRemap :
          fRemapStatus' = FeatureNode_rsetRemapStatus(fRemapStatus, TargetGene, r)
    /\ \E t \in InitTarget :
          fTargetStatus' = FeatureNode_rsetTargetStatus(fTargetStatus, TargetGene, t)
    /\ UNCHANGED <<linkVars, fNumMappings, fAttrs, destroyed, delStack,
                   src, mapped, unmapped, pc, ret>>

\* ResultFeatureTrees::free: the three deletes, and no pointer is reset.  A
\* delete through a dangling pointer is undefined behaviour: the program
\* crashes at that delete, or the destructor runs once more and free goes on.
ResultFeatureTrees_free ==
    /\ pc = "run"
    /\ Call("free", "", 0)
    /\ LET d1 == DeleteTree(destroyed, mapped)
           d2 == DeleteTree(d1, unmapped)
           d3 == DeleteTree(d2, target)
       IN \/ /\ destroyed' = d3
             /\ pc' = "run"
          \/ /\ Dangling(destroyed, mapped)
             /\ destroyed' = d1
             /\ pc' = "crashed"
          \/ /\ Dangling(destroyed, unmapped)
             /\ destroyed' = d2
             /\ pc' = "crashed"
          \/ /\ Dangling(destroyed, target)
             /\ destroyed' = d3
             /\ pc' = "crashed"
    /\ UNCHANGED <<linkVars, statusVars, delStack, rftVars, ret>>

\* ResultFeatureTrees::freeMapped: delete mapped; mapped = NULL.
ResultFeatureTrees_freeMapped ==
    /\ pc = "run"
    /\ Call("freeMapped", "", 0)
    /\ destroyed' = DeleteTree(destroyed, mapped)
    /\ \/ /\ mapped' = NULL
          /\ pc' = "run"
       \/ /\ Dangling(destroyed, mapped)
          /\ mapped' = mapped
          /\ pc' = "crashed"
    /\ UNCHANGED <<linkVars, statusVars, delStack, src, unmapped, target, ret>>

\* ResultFeatureTrees::freeUnmapped: delete unmapped; unmapped = NULL.
ResultFeatureTrees_freeUnmapped ==
    /\ pc = "run"
    /\ Call("freeUnmapped", "", 0)
    /\ destroyed' = DeleteTree(destroyed, unmapped)
    /\ \/ /\ unmapped' = NULL
          /\ pc' = "run"
       \/ /\ Dangling(destroyed, unmapped)
          /\ unmapped' = unmapped
          /\ pc' = "crashed"
    /\ UNCHANGED <<linkVars, statusVars, delStack, src, mapped, target, ret>>

\* getRemapStatus that looks at unmapped before mapped.
getRemapStatus_UnmappedFirst ==
    IF unmapped # NULL THEN fRemapStatus[unmapped]
    ELSE IF mapped # NULL THEN fRemapStatus[mapped]
    ELSE IF target # NULL THEN fRemapStatus[target]
    ELSE REMAP_STATUS_DELETED

\* ResultFeatureTrees::getRemapStatus.
getRemapStatus ==
    IF mapped # NULL THEN fRemapStatus[mapped]
    ELSE IF unmapped # NULL THEN fRemapStatus[unmapped]
    ELSE IF target # NULL THEN fRemapStatus[target]
    ELSE REMAP_STATUS_DELETED

\* ResultFeatureTrees::getTargetStatus.
getTargetStatus ==
    IF mapped # NULL THEN fTargetStatus[mapped]
    ELSE IF unmapped # NULL THEN fTargetStatus[unmapped]
    ELSE IF target # NULL THEN fTargetStatus[target]
    ELSE TARGET_STATUS_LOST

\* A call of a const member: the state stays, the value is returned.
Query(name, value) ==
    /\ Live
    /\ Call(name, "", 0)
    /\ ret' = value
    /\ UNCHANGED <<linkVars, statusVars, destroyed, delStack, rftVars, pc>>

GetRemapStatus == Query("getRemapStatus", getRemapStatus)

GetTargetStatus == Query("getTargetStatus", getTargetStatus)

\* FeatureNode::anyChildWithRemapStatus: some child has a status of the set.
FeatureNode_anyChildWithRemapStatus(this, remapStatusSet) ==
    \E i \in 1..Len(fChildren[this]) :
        fRemapStatus[fChildren[this][i]] \in remapStatusSet

\* FeatureNode::allChildWithRemapStatus: every child has a status of the set.
FeatureNode_allChildWithRemapStatus(this, remapStatusSet) ==
    \A i \in 1..Len(fChildren[this]) :
        fRemapStatus[fChildren[this][i]] \in remapStatusSet

\* ResultFeatureTrees::anyChildWithRemapStatus: over mapped and unmapped.
anyChildWithRemapStatus(remapStatusSet) ==
    \/ mapped # NULL /\ FeatureNode_anyChildWithRemapStatus(mapped, remapStatusSet)
    \/ unmapped # NULL /\ FeatureNode_anyChildWithRemapStatus(unmapped, remapStatusSet)

\* ResultFeatureTrees::allChildWithRemapStatus: over mapped and unmapped.
allChildWithRemapStatus(remapStatusSet) ==
    /\ mapped # NULL => FeatureNode_allChildWithRemapStatus(mapped, remapStatusSet)
    /\ unmapped # NULL => FeatureNode_allChildWithRemapStatus(unmapped, remapStatusSet)

\* calcBoundingFeatureRemapStatus that never looks at srcSeqInMapping.
calcBoundingFeatureRemapStatus_NoGate(srcSeqInMapping) ==
    IF ~anyChildWithRemapStatus({REMAP_STATUS_FULL, REMAP_STATUS_PARTIAL})
    THEN REMAP_STATUS_DELETED
    ELSE IF allChildWithRemapStatus({REMAP_STATUS_FULL})
         THEN REMAP_STATUS_FULL
         ELSE REMAP_STATUS_PARTIAL

\* ResultFeatureTrees::calcBoundingFeatureRemapStatus: the status of a gene or
\* transcript from its children's; conflict and size change are forced by the
\* caller and never come from here.
calcBoundingFeatureRemapStatus(srcSeqInMapping) ==
    IF ~anyChildWithRemapStatus({REMAP_STATUS_FULL, REMAP_STATUS_PARTIAL})
    THEN (IF srcSeqInMapping THEN REMAP_STATUS_DELETED ELSE REMAP_STATUS_NO_SEQ_MAP)
    ELSE IF allChildWithRemapStatus({REMAP_STATUS_FULL})
         THEN REMAP_STATUS_FULL
         ELSE REMAP_STATUS_PARTIAL

\* ResultFeatureTrees::rsetRemapStatus: on mapped and on unmapped, where present.
ResultFeatureTrees_rsetRemapStatus(remapStatus) ==
    /\ Live
    /\ Call("rsetRemapStatus", remapStatus, 0)
    /\ LET a == IF mapped # NULL THEN FeatureNode_rsetRemapStatus(fRemapStatus, mapped, remapStatus) ELSE fRemapStatus
           b == IF unmapped # NULL THEN FeatureNode_rsetRemapStatus(a, unmapped, remapStatus) ELSE a
       IN fRemapStatus' = b
    /\ UNCHANGED <<linkVars, fTargetStatus, fNumMappings, fAttrs, destroyed, delStack, rftVars, pc, ret>>

\* ResultFeatureTrees::setTargetStatus: on mapped and on unmapped, where present.
ResultFeatureTrees_setTargetStatus(targetStatus) ==
    /\ Live
    /\ Call("setTargetStatus", targetStatus, 0)
    /\ LET a == IF mapped # NULL THEN FeatureNode_setTargetStatus(fTargetStatus, mapped, targetStatus) ELSE fTargetStatus
           b == IF unmapped # NULL THEN FeatureNode_setTargetStatus(a, unmapped, targetStatus) ELSE a
       IN fTargetStatus' = b
    /\ UNCHANGED <<linkVars, fRemapStatus, fNumMappings, fAttrs, destroyed, delStack, rftVars, pc, ret>>

\* rsetTargetStatus that goes over target as well.
ResultFeatureTrees_rsetTargetStatus_AlsoTarget(targetStatus) ==
    /\ Live
    /\ Call("rsetTargetStatus", targetStatus, 0)
    /\ LET a == IF mapped # NULL THEN FeatureNode_rsetTargetStatus(fTargetStatus, mapped, targetStatus) ELSE fTargetStatus
           b == IF unmapped # NULL THEN FeatureNode_rsetTargetStatus(a, unmapped, targetStatus) ELSE a
           c == IF target # NULL THEN FeatureNode_rsetTargetStatus(b, target, targetStatus) ELSE b
       IN fTargetStatus' = c
    /\ UNCHANGED <<linkVars, fRemapStatus, fNumMappings, fAttrs, destroyed, delStack, rftVars, pc, ret>>

\* ResultFeatureTrees::rsetTargetStatus: on mapped and on unmapped, where present.
ResultFeatureTrees_rsetTargetStatus(targetStatus) ==
    /\ Live
    /\ Call("rsetTargetStatus", targetStatus, 0)
    /\ LET a == IF mapped # NULL THEN FeatureNode_rsetTargetStatus(fTargetStatus, mapped, targetStatus) ELSE fTargetStatus
           b == IF unmapped # NULL THEN FeatureNode_rsetTargetStatus(a, unmapped, targetStatus) ELSE a
       IN fTargetStatus' = b
    /\ UNCHANGED <<linkVars, fRemapStatus, fNumMappings, fAttrs, destroyed, delStack, rftVars, pc, ret>>

\* ResultFeatureTrees::rsetTargetStatusAttr: on mapped and on unmapped, where present.
ResultFeatureTrees_rsetTargetStatusAttr ==
    /\ Live
    /\ Call("rsetTargetStatusAttr", "", 0)
    /\ LET a == IF mapped # NULL THEN FeatureNode_rsetTargetStatusAttr(fAttrs, mapped) ELSE fAttrs
           b == IF unmapped # NULL THEN FeatureNode_rsetTargetStatusAttr(a, unmapped) ELSE a
       IN fAttrs' = b
    /\ UNCHANGED <<linkVars, fRemapStatus, fTargetStatus, fNumMappings, destroyed, delStack, rftVars, pc, ret>>

\* ResultFeatureTrees::setNumMappingsAttr: on mapped and on unmapped, where present.
ResultFeatureTrees_setNumMappingsAttr ==
    /\ Live
    /\ Call("setNumMappingsAttr", "", 0)
    /\ LET a == IF mapped # NULL THEN FeatureNode_setNumMappingsAttr(fAttrs, mapped) ELSE fAttrs
           b == IF unmapped # NULL THEN FeatureNode_setNumMappingsAttr(a, unmapped) ELSE a
       IN fAttrs' = b
    /\ UNCHANGED <<linkVars, fRemapStatus, fTargetStatus, fNumMappings, destroyed, delStack, rftVars, pc, ret>>

\* ResultFeatureTrees::rsetRemapStatusAttr: on mapped and on unmapped, where present.
ResultFeatureTrees_rsetRemapStatusAttr ==
    /\ Live
    /\ Call("rsetRemapStatusAttr", "", 0)
    /\ LET a == IF mapped # NULL THEN FeatureNode_rsetRemapStatusAttr(fAttrs, mapped) ELSE fAttrs
           b == IF unmapped # NULL THEN FeatureNode_rsetRemapStatusAttr(a, unmapped) ELSE a
       IN fAttrs' = b
    /\ UNCHANGED <<linkVars, fRemapStatus, fTargetStatus, fNumMappings, destroyed, delStack, rftVars, pc, ret>>

\* setBoundingFeatureRemapStatus that sets the status on mapped only.
ResultFeatureTrees_setBoundingFeatureRemapStatus_MappedOnly(srcSeqInMapping) ==
    /\ Live
    /\ Call("setBoundingFeatureRemapStatus", "", IF srcSeqInMapping THEN 1 ELSE 0)
    /\ LET remapStatus == calcBoundingFeatureRemapStatus(srcSeqInMapping)
       IN fRemapStatus' =
             IF mapped # NULL
             THEN FeatureNode_setRemapStatus(fRemapStatus, mapped, remapStatus)
             ELSE fRemapStatus
    /\ UNCHANGED <<linkVars, fTargetStatus, fNumMappings, fAttrs, destroyed,
                   delStack, rftVars, pc, ret>>

\* ResultFeatureTrees::setBoundingFeatureRemapStatus: the status computed from
\* the children is set on the root of mapped and of unmapped, where present.
ResultFeatureTrees_setBoundingFeatureRemapStatus(srcSeqInMapping) ==
    /\ Live
    /\ Call("setBoundingFeatureRemapStatus", "", IF srcSeqInMapping THEN 1 ELSE 0)
    /\ LET remapStatus == calcBoundingFeatureRemapStatus(srcSeqInMapping)
           a == IF mapped # NULL
                THEN FeatureNode_setRemapStatus(fRemapStatus, mapped, remapStatus)
                ELSE fRemapStatus
           b == IF unmapped # NULL
                THEN FeatureNode_setRemapStatus(a, unmapped, remapStatus)
                ELSE a
       IN fRemapStatus' = b
    /\ UNCHANGED <<linkVars, fTargetStatus, fNumMappings, fAttrs, destroyed,
                   delStack, rftVars, pc, ret>>

RsetRemapStatus == \E s \in ArgRemap : ResultFeatureTrees_rsetRemapStatus(s)

SetTargetStatus == \E s \in ArgTarget : ResultFeatureTrees_setTargetStatus(s)

RsetTargetStatus == \E s \in ArgTarget : ResultFeatureTrees_rsetTargetStatus(s)

SetBoundingFeatureRemapStatus ==
    \E b \in BOOLEAN : ResultFeatureTrees_setBoundingFeatureRemapStatus(b)

NextRFT ==
    \/ SetTarget
    \/ ResultFeatureTrees_free
    \/ ResultFeatureTrees_freeMapped
    \/ ResultFeatureTrees_freeUnmapped
    \/ GetRemapStatus
    \/ GetTargetStatus
    \/ RsetRemapStatus
    \/ SetTargetStatus
    \/ RsetTargetStatus
    \/ ResultFeatureTrees_rsetTargetStatusAttr
    \/ ResultFeatureTrees_setNumMappingsAttr
    \/ ResultFeatureTrees_rsetRemapStatusAttr
    \/ SetBoundingFeatureRemapStatus

SpecRFT == InitRFT /\ [][NextRFT]_vars

\* ----------------------------------- calcBoundingFeatureRemapStatus alone
\* The transcripts of the mapped and of the unmapped tree.
BoundKids == {Kid(r, k) : r \in {MappedGene, UnmappedGene}, k \in 1..MaxKids}

\* Statuses a transcript carries when the status of its gene is computed.
KidRemap ==
    {REMAP_STATUS_FULL, REMAP_STATUS_PARTIAL, REMAP_STATUS_DELETED,
     REMAP_STATUS_GENE_CONFLICT}

\* A ResultFeatureTrees right after its transcripts were classified: each
\* transcript carries a status, the genes none yet.
InitBound ==
    /\ fParent = RftParent
    /\ fChildren = RftChildren
    /\ \E ks \in [BoundKids -> KidRemap] :
          fRemapStatus = [n \in RftNodes |->
                            IF n \in BoundKids THEN ks[n] ELSE REMAP_STATUS_NONE]
    /\ fTargetStatus = [n \in RftNodes |-> TARGET_STATUS_NA]
    /\ fNumMappings = [n \in RftNodes |-> 0]
    /\ fAttrs = [n \in RftNodes |-> NoAttrs]
    /\ destroyed = [n \in RftNodes |-> 0]
    /\ delStack = <<>>
    /\ src = SrcGene
    /\ mapped \in {NULL, MappedGene}
    /\ unmapped \in {NULL, UnmappedGene}
    /\ target \in {NULL, TargetGene}
    /\ pc = "run"
    /\ lastOp = Op("new", "", 0)
    /\ nOps = 0
    /\ ret = ""
    /\ tmfMapped = <<>> /\ tmfUnmapped = <<>>
    /\ NoAnnotationSet

\* A call of calcBoundingFeatureRemapStatus: the state stays.
CalcBoundingFeatureRemapStatus ==
    \E b \in BOOLEAN :
        /\ Live
        /\ Call("calcBoundingFeatureRemapStatus", "", IF b THEN 1 ELSE 0)
        /\ ret' = calcBoundingFeatureRemapStatus(b)
        /\ UNCHANGED <<linkVars, statusVars, destroyed, delStack, rftVars, pc>>

\* The first call on the object computes or sets the status of the gene.
NextBound ==
    /\ nOps = 0
    /\ \/ CalcBoundingFeatureRemapStatus
       \/ SetBoundingFeatureRemapStatus

SpecBound == InitBound /\ [][NextBound]_vars

\* ------------------------------------------------------ TransMappedFeature
\* The arena of SpecTMF: MaxFrags fragments, each an exon with one child.
TmfRoots == 1..MaxFrags
TmfNodes == 1..(2 * MaxFrags)

\* TransMappedFeature::TransMappedFeature(src): both vectors empty.  The
\* fragments are built and not classified yet.
InitTMF ==
    /\ fParent = [n \in TmfNodes |-> IF n \in TmfRoots THEN NULL ELSE n - MaxFrags]
    /\ fChildren = [n \in TmfNodes |-> IF n \in TmfRoots THEN <<n + MaxFrags>> ELSE <<>>]
    /\ fRemapStatus = [n \in TmfNodes |-> REMAP_STATUS_NONE]
    /\ fTargetStatus = [n \in TmfNodes |-> TARGET_STATUS_NA]
    /\ fNumMappings = [n \in TmfNodes |-> 0]
    /\ fAttrs = [n \in TmfNodes |-> NoAttrs]
    /\ destroyed = [n \in TmfNodes |-> 0]
    /\ delStack = <<>>
    /\ src = NULL /\ mapped = NULL /\ unmapped = NULL /\ target = NULL
    /\ pc = "run"
    /\ lastOp = Op("new", 0, 0)
    /\ nOps = 0
    /\ ret = ""
    /\ tmfMapped = <<>>
    /\ tmfUnmapped = <<>>
    /\ NoAnnotationSet

Range(seq) == {seq[i] : i \in 1..Len(seq)}

\* TransMappedFeature::addMapped.
addMapped(featureNode) ==
    /\ lastOp' = Op("addMapped", featureNode, 0)
    /\ tmfMapped' = Append(tmfMapped, featureNode)
    /\ UNCHANGED <<linkVars, statusVars, destroyed, delStack, rftVars, pc, nOps,
                   ret, tmfUnmapped, asVars>>

\* TransMappedFeature::addUnmapped.
addUnmapped(featureNode) ==
    /\ lastOp' = Op("addUnmapped", featureNode, 0)
    /\ tmfUnmapped' = Append(tmfUnmapped, featureNode)
    /\ UNCHANGED <<linkVars, statusVars, destroyed, delStack, rftVars, pc, nOps,
                   ret, tmfMapped, asVars>>

\* TransMappedFeature::calcRemapStatus: from the two vectors alone.
calcRemapStatus(srcSeqInMapping) ==
    IF Len(tmfMapped) = 0
    THEN (IF srcSeqInMapping THEN REMAP_STATUS_DELETED ELSE REMAP_STATUS_NO_SEQ_MAP)
    ELSE IF Len(tmfUnmapped) = 0
         THEN REMAP_STATUS_FULL
         ELSE REMAP_STATUS_PARTIAL

\* setRemapStatus whose second loop runs over mapped again.
TransMappedFeature_setRemapStatus_MappedTwice(srcSeqInMapping) ==
    /\ lastOp' = Op("setRemapStatus", IF srcSeqInMapping THEN 1 ELSE 0, 0)
    /\ LET remapStatus == calcRemapStatus(srcSeqInMapping)
       IN fRemapStatus' =
             [n \in DOMAIN fRemapStatus |->
                IF n \in Range(tmfMapped) THEN remapStatus ELSE fRemapStatus[n]]
    /\ UNCHANGED <<linkVars, fTargetStatus, fNumMappings, fAttrs, destroyed,
                   delStack, rftVars, pc, nOps, ret, tmfVars, asVars>>

\* TransMappedFeature::setRemapStatus: the computed status is written to
\* fRemapStatus of each node of mapped, then of each node of unmapped.
TransMappedFeature_setRemapStatus(srcSeqInMapping) ==
    /\ lastOp' = Op("setRemapStatus", IF srcSeqInMapping THEN 1 ELSE 0, 0)
    /\ LET remapStatus == calcRemapStatus(srcSeqInMapping)
       IN fRemapStatus' =
             [n \in DOMAIN fRemapStatus |->
                IF n \in Range(tmfMapped) \cup Range(tmfUnmapped)
                THEN remapStatus
                ELSE fRemapStatus[n]]
    /\ UNCHANGED <<linkVars, fTargetStatus, fNumMappings, fAttrs, destroyed,
                   delStack, rftVars, pc, nOps, ret, tmfVars, asVars>>

\* Fragments come out of the mapping one by one, each into one of the vectors.
AddMapped ==
    \E n \in TmfRoots \ (Range(tmfMapped) \cup Range(tmfUnmapped)) : addMapped(n)

AddUnmapped ==
    \E n \in TmfRoots \ (Range(tmfMapped) \cup Range(tmfUnmapped)) : addUnmapped(n)

CalcRemapStatus ==
    \E b \in BOOLEAN :
        /\ lastOp' = Op("calcRemapStatus", IF b THEN 1 ELSE 0, 0)
        /\ ret' = calcRemapStatus(b)
        /\ UNCHANGED <<linkVars, statusVars, destroyed, delStack, rftVars, pc,
                       nOps, tmfVars, asVars>>

SetRemapStatus == \E b \in BOOLEAN : TransMappedFeature_setRemapStatus(b)

NextTMF == AddMapped \/ AddUnmapped \/ CalcRemapStatus \/ SetRemapStatus

SpecTMF == InitTMF /\ [][NextTMF]_vars

\* ------------------------------------------------------------ AnnotationSet
\* A gene of the set is a node without children; node g is the g-th gene
\* added and fFeature[g] its record: [seqid, start, end, id, name].
SeqIds == {"chr1", "chrX", "chrY"}
GeneIds == {"G1", "G2"}
GeneNames == {"N1", "N2"}
Intervals == {<<100, 200>>, <<250, 300>>}
QueryIntervals == {<<150, 260>>, <<150, 250>>, <<200, 250>>}

Feature(seqid, iv, id, name) ==
    [seqid |-> seqid, start |-> iv[1], end |-> iv[2], id |-> id, name |-> name]

\* A call on the AnnotationSet: a key, a sequence id and a pair of numbers.
ASOp(o, key, seqid, pair) == [op |-> o, a |-> key, seq |-> seqid, b |-> pair]

InitAS ==
    /\ fParent = <<>>
    /\ fChildren = <<>>
    /\ fRemapStatus = <<>>
    /\ fTargetStatus = <<>>
    /\ fNumMappings = <<>>
    /\ fAttrs = <<>>
    /\ destroyed = <<>>
    /\ delStack = <<>>
    /\ src = NULL /\ mapped = NULL /\ unmapped = NULL /\ target = NULL
    /\ pc = "run"
    /\ lastOp = ASOp("new", "", "", <<0, 0>>)
    /\ nOps = 0
    /\ ret = {}
    /\ tmfMapped = <<>>
    /\ tmfUnmapped = <<>>
    /\ EmptyAnnotationSet

nodeVars == <<linkVars, statusVars, destroyed, delStack, rftVars, pc, nOps, tmfVars>>

\* MapPush that keeps two entries for a key and overwrites the second.
MapPushFixed(featureMap, key, node) ==
    [k \in DOMAIN featureMap \cup {key} |->
        LET v == IF k \in DOMAIN featureMap THEN featureMap[k] ELSE <<>>
        IN IF k # key THEN v
           ELSE IF Len(v) < 2 THEN Append(v, node)
           ELSE <<v[1], node>>]

\* FeatureMap[key].push_back(node): a key not in the map gets an empty vector
\* first.
MapPush(featureMap, key, node) ==
    [k \in DOMAIN featureMap \cup {key} |->
        LET v == IF k \in DOMAIN featureMap THEN featureMap[k] ELSE <<>>
        IN IF k = key THEN Append(v, node) ELSE v]

\* AnnotationSet::addLocationMap: one entry of the range tree.
addLocationMap(entries, node, f) ==
    entries \cup {[seqid |-> f.seqid, start |-> f.start, end |-> f.end, node |-> node]}

\* AnnotationSet::buildLocationMap: every gene of the set is entered.
buildLocationMap(features) ==
    {[seqid |-> features[g].seqid, start |-> features[g].start,
      end |-> features[g].end, node |-> g] : g \in DOMAIN features}

\* addGene that enters nothing in a location map that is built already.
addGene_NoLocation(f) ==
    LET gene == Len(fGenes) + 1
    IN /\ Len(fGenes) < MaxGenes
       /\ lastOp' = ASOp("addGene", f.id, f.seqid, <<gene, 0>>)
       /\ fFeature' = Append(fFeature, f)
       /\ fGenes' = Append(fGenes, gene)
       /\ fIdFeatureMap' = MapPush(fIdFeatureMap, f.id, gene)
       /\ fNameFeatureMap' = MapPush(fNameFeatureMap, f.name, gene)
       /\ UNCHANGED <<fLocationMap, nodeVars, writeVars, ret>>

\* AnnotationSet::addGene (with addFeature): the gene is appended to fGenes and
\* to the vectors of its id and of its name, and entered in the location map
\* when that is built.
addGene(f) ==
    LET gene == Len(fGenes) + 1
    IN /\ Len(fGenes) < MaxGenes
       /\ lastOp' = ASOp("addGene", f.id, f.seqid, <<gene, 0>>)
       /\ fFeature' = Append(fFeature, f)
       /\ fGenes' = Append(fGenes, gene)
       /\ fIdFeatureMap' = MapPush(fIdFeatureMap, f.id, gene)
       /\ fNameFeatureMap' = MapPush(fNameFeatureMap, f.name, gene)
       /\ fLocationMap' =
             IF fLocationMap.built
             THEN [fLocationMap EXCEPT !.entries = addLocationMap(@, gene, f)]
             ELSE fLocationMap
       /\ UNCHANGED <<nodeVars, writeVars, ret>>

\* AnnotationSet::getFeatureByKey: NULL for a key without entries; the entry
\* for one entry; of two entries the one whose sequence id is not
\* seqIdForParCheck, when there is exactly one such; NULL otherwise.
getFeatureByKey(key, featureMap, seqIdForParCheck) ==
    IF key \notin DOMAIN featureMap
    THEN NULL
    ELSE LET v == featureMap[key]
             other == {i \in 1..Len(v) : fFeature[v[i]].seqid # seqIdForParCheck}
         IN IF Len(v) = 1 THEN v[1]
            ELSE IF Len(v) = 2 /\ Cardinality(other) = 1
                 THEN v[CHOOSE i \in other : TRUE]
                 ELSE NULL

\* AnnotationSet::getFeatureById.
getFeatureById(id, seqIdForParCheck) ==
    getFeatureByKey(id, fIdFeatureMap, seqIdForParCheck)

\* AnnotationSet::getFeatureByName.
getFeatureByName(name, seqIdForParCheck) ==
    getFeatureByKey(name, fNameFeatureMap, seqIdForParCheck)

\* A FeatureNode* returned: the empty result for NULL.
Result(node) == IF node = NULL THEN {} ELSE {node}

GetFeatureById ==
    \E id \in GeneIds, seqid \in SeqIds :
        /\ lastOp' = ASOp("getFeatureById", id, seqid, <<0, 0>>)
        /\ ret' = Result(getFeatureById(id, seqid))
        /\ UNCHANGED <<nodeVars, asVars>>

GetFeatureByName ==
    \E name \in GeneNames, seqid \in SeqIds :
        /\ lastOp' = ASOp("getFeatureByName", name, seqid, <<0, 0>>)
        /\ ret' = Result(getFeatureByName(name, seqid))
        /\ UNCHANGED <<nodeVars, asVars>>

\* The half-open intervals [s1, e1) and [s2, e2) share a position.
Overlaps(s1, e1, s2, e2) == s1 < e2 /\ s2 < e1

\* AnnotationSet::findOverlappingFeatures: builds the location map on the
\* first query, then gives the nodes of the entries on seqid that overlap.
findOverlappingFeatures(seqid, start, end) ==
    /\ lastOp' = ASOp("findOverlappingFeatures", "", seqid, <<start, end>>)
    /\ LET entries == IF fLocationMap.built
                      THEN fLocationMap.entries
                      ELSE buildLocationMap(fFeature)
       IN /\ fLocationMap' = [built |-> TRUE, entries |-> entries]
          /\ ret' = {e.node : e \in {x \in entries :
                                       /\ x.seqid = seqid
                                       /\ Overlaps(x.start, x.end, start, end)}}
    /\ UNCHANGED <<nodeVars, fFeature, fIdFeatureMap, fNameFeatureMap, fGenes,
                   writeVars>>

FindOverlappingFeatures ==
    \E seqid \in SeqIds, q \in QueryIntervals :
        findOverlappingFeatures(seqid, q[1], q[2])

\* checkRecordSeqRegionWritten that never records the sequence id.
checkRecordSeqRegionWritten_NoInsert(seqid, seqRegionsWritten) ==
    [returned |-> seqid \in seqRegionsWritten, set |-> seqRegionsWritten]

\* AnnotationSet::checkRecordSeqRegionWritten: what it returns and the set
\* after the call.
checkRecordSeqRegionWritten(seqid, seqRegionsWritten) ==
    IF seqid \notin seqRegionsWritten
    THEN [returned |-> FALSE, set |-> seqRegionsWritten \cup {seqid}]
    ELSE [returned |-> TRUE, set |-> seqRegionsWritten]

\* AnnotationSet::outputMappedSeqRegionIfNeed followed by outputFeature for one
\* gene, on the triple [set, out, log] of the written sequence ids, the output
\* and the log of the checks.
outputGene(w, gene) ==
    LET seqid == fFeature[gene].seqid
        c == checkRecordSeqRegionWritten(seqid, w.set)
        header == IF c.returned THEN <<>> ELSE <<[kind |-> "seqregion", seqid |-> seqid, node |-> 0]>>
    IN [set |-> c.set,
        out |-> w.out \o header \o <<[kind |-> "feature", seqid |-> seqid, node |-> gene]>>,
        log |-> Append(w.log, <<seqid, c.returned>>)]

RECURSIVE writeGenes(_, _)
\* The loop of AnnotationSet::write from the i-th gene on.
writeGenes(w, i) ==
    IF i > Len(fGenes) THEN w ELSE writeGenes(outputGene(w, fGenes[i]), i + 1)

\* AnnotationSet::write: every gene in the order of fGenes, each after the
\* header of its sequence when that was not written before.
write ==
    /\ nOps < MaxWrites
    /\ nOps' = nOps + 1
    /\ lastOp' = ASOp("write", "", "", <<0, 0>>)
    /\ LET w == writeGenes([set |-> fSeqRegionsWritten, out |-> written,
                            log |-> checkLog], 1)
       IN /\ fSeqRegionsWritten' = w.set
          /\ written' = w.out
          /\ checkLog' = w.log
    /\ UNCHANGED <<linkVars, statusVars, destroyed, delStack, rftVars, pc, tmfVars,
                   indexVars, ret>>

\* The genes added: any sequence, id and name, at one place.
AddGeneIndex ==
    \E seqid \in SeqIds, id \in GeneIds, name \in GeneNames :
        addGene(Feature(seqid, <<100, 200>>, id, name))

\* The genes added: any sequence and place, one id and name.
AddGeneOverlap ==
    \E seqid \in SeqIds, iv \in Intervals :
        addGene(Feature(seqid, iv, "G1", "N1"))

\* The genes added: any sequence, one place, id and name.
AddGeneWrite ==
    \E seqid \in SeqIds : addGene(Feature(seqid, <<100, 200>>, "G1", "N1"))

NextIndex == AddGeneIndex \/ GetFeatureById \/ GetFeatureByName

NextOverlap == AddGeneOverlap \/ FindOverlappingFeatures

NextWrite == AddGeneWrite \/ write

SpecIndex == InitAS /\ [][NextIndex]_vars

SpecOverlap == InitAS /\ [][NextOverlap]_vars

SpecWrite == InitAS /\ [][NextWrite]_vars

\* ------------------------------------------------------------------ claims

\* C1: an addChild(node) call on a node that already has a parent fails and
\* changes neither the parent links nor any child list; any other call appends
\* node at the end of the receiver's child list (the children attached before
\* keep their places) and makes the receiver node's parent.
C1_AddChildContract ==
    [][(pc = "run" /\ lastOp'.op = "addChild") =>
        LET this == lastOp'.a
            node == lastOp'.b
        IN IF fParent[node] # NULL
           THEN /\ pc' = "aborted"
                /\ fParent' = fParent
                /\ fChildren' = fChildren
           ELSE /\ pc' = "run"
                /\ Len(fChildren'[this]) = Len(fChildren[this]) + 1
                /\ fChildren'[this][Len(fChildren'[this])] = node
                /\ \A i \in 1..Len(fChildren[this]) :
                      fChildren'[this][i] = fChildren[this][i]
                /\ \A p \in Nodes \ {this} : fChildren'[p] = fChildren[p]
                /\ fParent'[node] = this
                /\ \A n \in Nodes \ {node} : fParent'[n] = fParent[n]]_vars

\* Two distinct nodes were attached to one parent, in that order, and a later
\* addChild of an attached node failed.
C1_Witness ==
    /\ pc = "aborted"
    /\ lastOp.op = "addChild"
    /\ fParent[lastOp.b] # NULL
    /\ \E p \in Nodes : Len(fChildren[p]) >= 2 /\ fChildren[p][1] # fChildren[p][2]

\* C10: whatever addChild calls succeeded, the nodes form a tree, and
\* destroying a node runs the destructor exactly once on it and on each of its
\* descendants, and never twice on any node.
C10_TreeDestroyedOnce ==
    /\ pc \in {"run", "deleting", "done"} => IsTree
    /\ \A n \in Nodes : destroyed[n] <= 1
    /\ pc = "done" => \A n \in Subtree(lastOp.a) : destroyed[n] = 1

\* The pointers of the ResultFeatureTrees that are set, in the order mapped,
\* unmapped, target.
PresentTrees == SelectSeq(<<mapped, unmapped, target>>, LAMBDA p : p # NULL)

\* C2: getRemapStatus and getTargetStatus return the status of the root of the
\* first tree present among mapped, unmapped, target, and deleted, respectively
\* lost, when none is.
C2_StatusOfFirstPresent ==
    /\ lastOp.op = "getRemapStatus" =>
          ret = (IF PresentTrees = <<>> THEN REMAP_STATUS_DELETED
                 ELSE fRemapStatus[Head(PresentTrees)])
    /\ lastOp.op = "getTargetStatus" =>
          ret = (IF PresentTrees = <<>> THEN TARGET_STATUS_LOST
                 ELSE fTargetStatus[Head(PresentTrees)])

\* getRemapStatus answered from unmapped, with mapped absent and a target of
\* another status present.
C2_Witness ==
    /\ lastOp.op = "getRemapStatus"
    /\ mapped = NULL /\ unmapped # NULL /\ target # NULL
    /\ fRemapStatus[unmapped] # fRemapStatus[target]
    /\ ret = fRemapStatus[unmapped]

\* C3: after free, freeMapped or freeUnmapped the pointers the operation covers
\* are NULL, no node was destroyed twice, and no node of src was destroyed.
C3_FreeNullsAndDestroysOnce ==
    /\ (pc = "run" /\ lastOp.op = "free") =>
          mapped = NULL /\ unmapped = NULL /\ target = NULL
    /\ (pc = "run" /\ lastOp.op = "freeMapped") => mapped = NULL
    /\ (pc = "run" /\ lastOp.op = "freeUnmapped") => unmapped = NULL
    /\ \A n \in DOMAIN destroyed : destroyed[n] <= 1
    /\ src # NULL => \A n \in Subtree(src) : destroyed[n] = 0

\* The operations that go over mapped and unmapped.
FanOutOps ==
    {"rsetRemapStatus", "setTargetStatus", "rsetTargetStatus",
     "rsetTargetStatusAttr", "setNumMappingsAttr", "rsetRemapStatusAttr",
     "setBoundingFeatureRemapStatus"}

\* What a node carries.
NodeState(n) == <<fRemapStatus[n], fTargetStatus[n], fNumMappings[n], fAttrs[n]>>

\* C4: a call of one of the operations that go over mapped and unmapped leaves
\* every node of the target tree and of the source tree as it was, and the
\* four pointers too.
C4_TargetAndSrcUntouched ==
    [][lastOp'.op \in FanOutOps /\ nOps' # nOps =>
        /\ \A n \in Subtree(TargetGene) \cup Subtree(SrcGene) :
              NodeState(n)' = NodeState(n)
        /\ UNCHANGED <<rftVars, linkVars, destroyed>>]_vars

\* A recursive operation changed the mapped and the unmapped tree while a
\* target that carries other statuses was present.
C4_Witness ==
    /\ lastOp.op = "rsetTargetStatus"
    /\ mapped # NULL /\ unmapped # NULL /\ target = TargetGene
    /\ \A n \in Subtree(MappedGene) \cup Subtree(UnmappedGene) :
          fTargetStatus[n] = lastOp.a
    /\ \A n \in Subtree(TargetGene) : fTargetStatus[n] # lastOp.a

\* The statuses of the children of the mapped and of the unmapped root.
ChildStatuses ==
    {fRemapStatus[c] :
        c \in {n \in DOMAIN fParent :
                 fParent[n] # NULL /\ fParent[n] \in {mapped, unmapped}}}

MappedStatuses == {REMAP_STATUS_FULL, REMAP_STATUS_PARTIAL}

\* C6: calcBoundingFeatureRemapStatus gives full only when every child is
\* full, and does when there is any; partial when some child mapped and some
\* child is not full; when no child mapped, deleted if the source sequence
\* was in the mapping and the no-sequence-map status if not; never conflict
\* or size change.
C6_BoundingStatusFromChildren ==
    lastOp.op = "calcBoundingFeatureRemapStatus" =>
        /\ ret = REMAP_STATUS_FULL => ChildStatuses = {REMAP_STATUS_FULL}
        /\ ChildStatuses = {REMAP_STATUS_FULL} => ret = REMAP_STATUS_FULL
        /\ (/\ ChildStatuses \cap MappedStatuses # {}
            /\ ChildStatuses # {REMAP_STATUS_FULL}) => ret = REMAP_STATUS_PARTIAL
        /\ ChildStatuses \cap MappedStatuses = {} =>
              ret = (IF lastOp.b = 1 THEN REMAP_STATUS_DELETED
                     ELSE REMAP_STATUS_NO_SEQ_MAP)
        /\ ret \notin {REMAP_STATUS_GENE_CONFLICT, REMAP_STATUS_GENE_SIZE_CHANGE}

\* The status was computed without the source sequence in the mapping from
\* children none of which mapped, some of them in conflict.
C6_Witness ==
    /\ lastOp.op = "calcBoundingFeatureRemapStatus"
    /\ lastOp.b = 0
    /\ mapped # NULL /\ unmapped # NULL
    /\ ChildStatuses = {REMAP_STATUS_DELETED, REMAP_STATUS_GENE_CONFLICT}
    /\ ret = REMAP_STATUS_NO_SEQ_MAP

\* The status of a TransMappedFeature with these vectors, srcSeqInMapping
\* being b: v.
Classified(v, b) ==
    /\ (b /\ tmfMapped # <<>> /\ tmfUnmapped = <<>>) => v = REMAP_STATUS_FULL
    /\ (b /\ tmfMapped # <<>> /\ tmfUnmapped # <<>>) => v = REMAP_STATUS_PARTIAL
    /\ (b /\ tmfMapped = <<>>) => v = REMAP_STATUS_DELETED
    /\ (~b /\ tmfMapped = <<>>) => v = REMAP_STATUS_NO_SEQ_MAP

\* C7: calcRemapStatus classifies from the two vectors alone (full, partial,
\* deleted, and the no-sequence-map status instead of deleted when the source
\* sequence was not in the mapping), and setRemapStatus writes that value to
\* every node of mapped and of unmapped and to no other node.
C7_SingleLevelStatus ==
    [][/\ lastOp'.op = "calcRemapStatus" =>
             /\ Classified(ret', lastOp'.a = 1)
             /\ UNCHANGED <<statusVars, tmfVars>>
       /\ lastOp'.op = "setRemapStatus" =>
             /\ Classified(calcRemapStatus(lastOp'.a = 1), lastOp'.a = 1)
             /\ \A n \in DOMAIN fRemapStatus :
                   fRemapStatus'[n] =
                      IF \/ \E i \in 1..Len(tmfMapped) : tmfMapped[i] = n
                         \/ \E i \in 1..Len(tmfUnmapped) : tmfUnmapped[i] = n
                      THEN calcRemapStatus(lastOp'.a = 1)
                      ELSE fRemapStatus[n]]_vars

\* setRemapStatus wrote partial to a mapped and to an unmapped fragment, whose
\* children keep the status they had.
C7_Witness ==
    /\ lastOp.op = "setRemapStatus"
    /\ tmfMapped # <<>> /\ tmfUnmapped # <<>>
    /\ \A n \in Range(tmfMapped) \cup Range(tmfUnmapped) :
          /\ fRemapStatus[n] = REMAP_STATUS_PARTIAL
          /\ fRemapStatus[fChildren[n][1]] = REMAP_STATUS_NONE

\* The genes added with this id, respectively name, in the order added.
IdEntries(id) == SelectSeq(fGenes, LAMBDA g : fFeature[g].id = id)
NameEntries(name) == SelectSeq(fGenes, LAMBDA g : fFeature[g].name = name)

\* What a lookup gives for a key with the entries e.
Lookup(e, seqIdForParCheck) ==
    LET other == {g \in Range(e) : fFeature[g].seqid # seqIdForParCheck}
    IN IF Len(e) = 1 THEN {e[1]}
       ELSE IF Len(e) = 2 /\ Cardinality(other) = 1 THEN other
       ELSE {}

GenesOverlapping(seqid, start, end) ==
    {g \in Range(fGenes) :
        /\ fFeature[g].seqid = seqid
        /\ fFeature[g].start < end
        /\ start < fFeature[g].end}

\* findOverlappingFeatures gave every gene added that is on the sequence asked
\* for and shares a position with the interval asked for, and nothing else.
OverlapQueryExact ==
    lastOp.op = "findOverlappingFeatures" =>
        ret = GenesOverlapping(lastOp.seq, lastOp.b[1], lastOp.b[2])

\* The genes on chr1 are one at 100-200 and one at 250-300.
TwoGenesOnChr1 ==
    /\ Cardinality({g \in Range(fGenes) : fFeature[g].seqid = "chr1"}) = 2
    /\ {<<fFeature[g].start, fFeature[g].end>> :
          g \in {x \in Range(fGenes) : fFeature[x].seqid = "chr1"}}
       = {<<100, 200>>, <<250, 300>>}

Emitted(kind, seqid) ==
    Cardinality({i \in 1..Len(written) :
                    written[i].kind = kind /\ written[i].seqid = seqid})

\* C5: checkRecordSeqRegionWritten returns false on the first call for a
\* sequence id and true on every later one, and the writer received exactly
\* one sequence-region header for each sequence id of a gene written and none
\* for any other.
C5_SeqRegionOnce ==
    /\ \A i \in 1..Len(checkLog) :
          checkLog[i][2] = (\E j \in 1..(i - 1) : checkLog[j][1] = checkLog[i][1])
    /\ \A s \in SeqIds :
          Emitted("seqregion", s) = (IF Emitted("feature", s) > 0 THEN 1 ELSE 0)

\* Two genes of one sequence id were written, twice, with one header.
C5_Witness ==
    /\ lastOp.op = "write"
    /\ \E s \in SeqIds :
          /\ Cardinality({g \in Range(fGenes) : fFeature[g].seqid = s}) >= 2
          /\ Emitted("feature", s) >= 4
          /\ Emitted("seqregion", s) = 1

\* C11: a call of setBoundingFeatureRemapStatus(srcSeqInMapping) leaves on the
\* root of mapped and on the root of unmapped, where present, the one value
\* calcBoundingFeatureRemapStatus(srcSeqInMapping) had before the call, and
\* when one of the two is present getRemapStatus gives that value after it.
C11_BoundingStatusApplied ==
    [][lastOp'.op = "setBoundingFeatureRemapStatus" /\ nOps' # nOps =>
        LET remapStatus == calcBoundingFeatureRemapStatus(lastOp'.b = 1)
        IN /\ mapped' # NULL => fRemapStatus'[mapped'] = remapStatus
           /\ unmapped' # NULL => fRemapStatus'[unmapped'] = remapStatus
           /\ (mapped' # NULL \/ unmapped' # NULL) => getRemapStatus' = remapStatus
           /\ UNCHANGED <<mapped, unmapped>>]_vars

\* The status was set on a gene with a mapped and an unmapped part, some of
\* whose transcripts mapped in full and some not at all: both roots went from
\* none to partial.
C11_Witness ==
    /\ lastOp.op = "setBoundingFeatureRemapStatus"
    /\ mapped # NULL /\ unmapped # NULL
    /\ {REMAP_STATUS_FULL, REMAP_STATUS_DELETED} \subseteq ChildStatuses
    /\ fRemapStatus[mapped] = REMAP_STATUS_PARTIAL
    /\ fRemapStatus[unmapped] = REMAP_STATUS_PARTIAL
    /\ getRemapStatus = REMAP_STATUS_PARTIAL

=============================================================================
